---- MODULE Spec2Model ----
(***************************************************************************)
(* A model of galax's orbit integrator (DiffraxIntegrator and its          *)
(* interpolant), of the dispatched potential operations of                  *)
(* galax.potential._potential.funcs, and of tidal_tensor.                  *)
(*                                                                         *)
(* Arrays are modelled by their shapes (sequences of axis lengths) where   *)
(* only the shape matters, and by shape plus elements where values matter. *)
(***************************************************************************)
EXTENDS Integers, Sequences, FiniteSets, TLC

VARIABLES
    diffeq_kw,    \* DiffraxIntegrator.diffeq_kw: the configured solver options
    pc,           \* where the integrator is: configured, completed, failed
    call,         \* the arguments of the last call of _call_implementation
    kw,           \* the options the last call handed to diffeqsolve
    attempts,     \* number of diffeqsolve calls made by the last call
    outcome,      \* how the last call ended
    w,            \* shape of the returned trajectory array (<<>> when none)
    interp,       \* the raw dense interpolation returned, or NoInterp
    interpolant,  \* the DiffraxInterpolant built from it, or NoInterp
    evaluated,    \* the last evaluation of the interpolant, or NoEval
    pot,          \* the potential: its model and its unit system
    args,         \* the position and time a caller holds
    last,         \* the call of a dispatched operation made, with its result
    tt,           \* tidal_tensor: the hessian it got and the tensor it returned
    builtin,      \* a builtin potential constructed, and its evaluation
    special,      \* a Milky Way composite constructed from component inputs
    gala,         \* a foreign potential and what gala_to_galax made of it
    psp,          \* a PhaseSpacePosition constructed from its inputs
    stream,       \* a MockStream
    item          \* the last stream[index] taken, with its index

intVars == <<diffeq_kw, pc, call, kw, attempts, outcome, w, interp,
             interpolant, evaluated>>
potVars == <<pot, args, last>>
tidalVars == <<tt>>
builtinVars == <<builtin>>
specialVars == <<special>>
galaVars == <<gala>>
pspVars == <<psp>>
streamVars == <<stream, item>>
vars == <<intVars, potVars, tidalVars, builtinVars, specialVars, galaVars,
          pspVars, streamVars>>

\* what the operations of one area leave alone
othersInt == <<potVars, tidalVars, builtinVars, specialVars, galaVars, pspVars,
    streamVars>>
othersPot == <<intVars, tidalVars, builtinVars, specialVars, galaVars, pspVars,
    streamVars>>
othersTidal == <<intVars, potVars, builtinVars, specialVars, galaVars, pspVars,
    streamVars>>
othersBuiltin == <<intVars, potVars, tidalVars, specialVars, galaVars, pspVars,
    streamVars>>
othersSpecial == <<intVars, potVars, tidalVars, builtinVars, galaVars, pspVars,
    streamVars>>
othersGala == <<intVars, potVars, tidalVars, builtinVars, specialVars, pspVars,
    streamVars>>
othersStream == <<intVars, potVars, tidalVars, builtinVars, specialVars,
                  galaVars, pspVars>>
othersPsp == <<intVars, potVars, tidalVars, builtinVars, specialVars, galaVars,
    streamVars>>

-----------------------------------------------------------------------------
(* Bounds of the model.                                                    *)

\* largest length of a batch axis of the initial conditions
MaxBatch == 2
\* largest number of save times / of evaluation times
MaxT == 2
\* largest configured max_steps, and largest number of steps a solve needs
MaxSteps == 2
\* stand-in for diffeqsolve's own default max_steps (applies when the key
\* is absent from the options)
DefaultMaxSteps == 1

-----------------------------------------------------------------------------
(* Python values.                                                          *)

\* Python's None, and a number n, as option values
None == <<>>
Some(n) == <<n>>

Max(a, b) == IF a >= b THEN a ELSE b

\* s[k:] of a tuple, k counted from 0
DropFirst(s, k) == IF k >= Len(s) THEN <<>> ELSE SubSeq(s, k + 1, Len(s))

\* a mapping without one of its keys
Without(m, key) == [k \in (DOMAIN m) \ {key} |-> m[k]]

-----------------------------------------------------------------------------
(* vectorize: the batch shape that the wrapped function's result gets.     *)

\* noncore shape padded on the left with 1s up to the broadcast rank
filled_shape(noncore_shape, rank) ==
    [i \in 1..rank |->
        IF i <= rank - Len(noncore_shape) THEN 1
        ELSE noncore_shape[i - (rank - Len(noncore_shape))]]

\* rank of the broadcast of the noncore shapes
RECURSIVE MaxRank(_)
MaxRank(shapes) ==
    IF shapes = <<>> THEN 0
    ELSE Max(Len(Head(shapes)), MaxRank(Tail(shapes)))

\* the sizes other than 1 that the arguments have on axis i
AxisSizes(shapes, i) ==
    {filled_shape(shapes[a], MaxRank(shapes))[i] : a \in 1..Len(shapes)} \ {1}

\* _parse_input_dimensions accepts the arguments: on every axis the sizes
\* other than 1 agree
BroadcastCompatible(shapes) ==
    \A i \in 1..MaxRank(shapes) : Cardinality(AxisSizes(shapes, i)) <= 1

\* _parse_input_dimensions: the broadcast of the noncore shapes
broadcast_shape(shapes) ==
    [i \in 1..MaxRank(shapes) |->
        IF AxisSizes(shapes, i) = {} THEN 1
        ELSE CHOOSE n \in AxisSizes(shapes, i) : TRUE]

\* the sizes of bs on the axes in axes, in order
RECURSIVE PickAxes(_, _, _)
PickAxes(bs, axes, i) ==
    IF i > Len(bs) THEN <<>>
    ELSE (IF i \in axes THEN <<bs[i]>> ELSE <<>>) \o PickAxes(bs, axes, i + 1)

\* vectorize.wrapped: every argument is squeezed of its length-1 noncore
\* axes, and one jax.vmap is added for every axis on which not all in_axes
\* are None, that is on which some argument has a size other than 1.  The
\* result carries one leading axis per vmap.
vectorize(shapes) ==
    PickAxes(broadcast_shape(shapes),
             {i \in 1..MaxRank(shapes) : AxisSizes(shapes, i) # {}}, 1)

-----------------------------------------------------------------------------
(* DiffraxIntegrator._call_implementation                                  *)

NoKw == [none |-> TRUE]
NoInterp == [none |-> TRUE]
NoEval == [none |-> TRUE]
NoCall == [none |-> TRUE]

\* dict.get(key): None for a missing key
kw_get(m, key) == IF key \in DOMAIN m THEN m[key] ELSE None

\* the condition of the option munging
pops_max_steps(dk, interpolated) ==
    interpolated /\ kw_get(dk, "max_steps") = None

\* kw.pop("max_steps") raises KeyError when the key is missing
munging_raises(dk, interpolated) ==
    pops_max_steps(dk, interpolated) /\ "max_steps" \notin DOMAIN dk

\* the options handed to diffeqsolve
munged_kw(dk, interpolated) ==
    IF pops_max_steps(dk, interpolated) THEN Without(dk, "max_steps") ELSE dk

\* a slip: kw = self.diffeq_kw, so that the key is popped from the
\* configuration itself
diffeq_kw_munged_in_place(dk, interpolated) == munged_kw(dk, interpolated)

\* self.diffeq_kw after the call: kw = dict(self.diffeq_kw) is a copy, and
\* the key is popped from the copy
diffeq_kw_after_call(dk, interpolated) == dk

\* diffrax.diffeqsolve(**kw) on an integration that needs `need` steps:
\* it completes unless a step cap is in force and is exceeded, and then it
\* raises.  A missing max_steps means the solver's own default cap.
step_cap(k) == IF "max_steps" \in DOMAIN k THEN k["max_steps"] ELSE Some(DefaultMaxSteps)
diffeqsolve_completes(k, need) ==
    step_cap(k) = None \/ need <= step_cap(k)[1]

\* jnp.atleast_2d(ts)
atleast_2d(shape) ==
    IF Len(shape) = 0 THEN <<1, 1>>
    ELSE IF Len(shape) = 1 THEN <<1>> \o shape
    ELSE shape

\* the noncore shapes of solve_diffeq's arguments, signature
\* "(6),(),(),(T)->()": w0, t0, t1, ts
solve_noncore(w0shape, tsshape) ==
    << SubSeq(w0shape, 1, Len(w0shape) - 1), <<>>, <<>>,
       SubSeq(atleast_2d(tsshape), 1, Len(atleast_2d(tsshape)) - 1) >>

\* batch shape of the vectorized solution (of solution.ys, solution.ts and
\* of the leaves of solution.interpolation)
solution_batch(w0shape, tsshape) == vectorize(solve_noncore(w0shape, tsshape))

\* w = concat((solution.ys, solution.ts[..., None]), axis=-1)
concat_w(w0shape, tsshape) ==
    solution_batch(w0shape, tsshape) \o <<tsshape[Len(tsshape)], 6 + 1>>

\* w = w[None] if w0.shape[0] == 1 else w
readd_batch_dim(w0shape, wshape) ==
    IF w0shape[1] = 1 THEN <<1>> \o wshape ELSE wshape

\* shape of the trajectory array that _call_implementation returns
trajectory_shape(w0shape, tsshape) ==
    readd_batch_dim(w0shape, concat_w(w0shape, tsshape))

\* the initial-condition arrays of the model: batch + (6,)
Batches ==
    {<<>>} \cup {<<n>> : n \in 1..MaxBatch}
           \cup {<<n, m>> : n \in 1..MaxBatch, m \in 1..MaxBatch}
W0Shapes == {b \o <<6>> : b \in Batches}

\* the save-time arrays: one shared grid (T,), or one grid per element (M, T)
TsShapes ==
    {<<t>> : t \in 1..MaxT} \cup {<<m, t>> : m \in 1..MaxBatch, t \in 1..MaxT}

\* the configurations of diffeq_kw: the default, a numeric cap, no cap key
DiffeqKws ==
    {[max_steps |-> None, discrete_terminating_event |-> None]}
    \cup {[max_steps |-> Some(n), discrete_terminating_event |-> None] :
            n \in 1..MaxSteps}
    \cup {[discrete_terminating_event |-> None]}

IntInit ==
    /\ diffeq_kw \in DiffeqKws
    /\ pc = "configured"
    /\ call = NoCall
    /\ kw = NoKw
    /\ attempts = 0
    /\ outcome = "none"
    /\ w = <<>>
    /\ interp = NoInterp
    /\ interpolant = NoInterp
    /\ evaluated = NoEval

\* one call of _call_implementation(F, w0, t0, t1, ts, interpolated)
CallImplementation(w0shape, tsshape, interpolated, need) ==
    /\ pc = "configured"
    /\ BroadcastCompatible(solve_noncore(w0shape, tsshape))
    /\ call' = [w0 |-> w0shape, ts |-> tsshape, interpolated |-> interpolated]
    /\ interpolant' = NoInterp
    /\ evaluated' = NoEval
    /\ diffeq_kw' = diffeq_kw_after_call(diffeq_kw, interpolated)
    /\ UNCHANGED othersInt
    /\ IF munging_raises(diffeq_kw, interpolated)
       THEN /\ pc' = "failed"
            /\ outcome' = "KeyError"
            /\ kw' = NoKw
            /\ attempts' = 0
            /\ w' = <<>>
            /\ interp' = NoInterp
       ELSE /\ kw' = munged_kw(diffeq_kw, interpolated)
            /\ attempts' = 1
            /\ IF diffeqsolve_completes(munged_kw(diffeq_kw, interpolated), need)
               THEN /\ pc' = "completed"
                    /\ outcome' = "trajectory"
                    /\ w' = trajectory_shape(w0shape, tsshape)
                    /\ interp' = IF interpolated
                                 THEN [batch |-> solution_batch(w0shape, tsshape)]
                                 ELSE NoInterp
               ELSE /\ pc' = "failed"
                    /\ outcome' = "solver_error"
                    /\ w' = <<>>
                    /\ interp' = NoInterp

-----------------------------------------------------------------------------
(* DiffraxIntegrator._process_interpolation and DiffraxInterpolant         *)

\* added_ndim = int(w0.shape[:-1] in ((), (1,)))
added_ndim(w0shape) ==
    IF SubSeq(w0shape, 1, Len(w0shape) - 1) \in {<<>>, <<1>>} THEN 1 ELSE 0

\* the leaves of the interpolation get x[None] when a dimension was added
process_leaves(batch, added) == IF added = 1 THEN <<1>> \o batch ELSE batch

ProcessInterpolation ==
    /\ pc = "completed"
    /\ interp # NoInterp
    /\ interpolant = NoInterp
    /\ interpolant' = [batch |-> process_leaves(interp.batch, added_ndim(call.w0)),
                       added_ndim |-> added_ndim(call.w0)]
    /\ UNCHANGED <<diffeq_kw, pc, call, kw, attempts, outcome, w, interp, evaluated>>
    /\ UNCHANGED othersInt

\* jnp.atleast_1d(t)
atleast_1d(shape) == IF Len(shape) = 0 THEN <<1>> ELSE shape

\* ys = jax.vmap(lambda s: jax.vmap(s.evaluate)(t_))(self.interpolant):
\* one axis for the leading axis of the leaves, one for the times, then the
\* 6 phase-space components
vmap_evaluate(batch, t_shape) == <<batch[1], t_shape[1], 6>>

\* a slip in the rank that ys is compared with
extra_dims_rank2(ys_ndim, added, t__ndim, t_ndim) ==
    ys_ndim - 2 + added + (t__ndim - t_ndim)

\* extra_dims = ys.ndim - 3 + self.added_ndim + (t_.ndim - t.ndim)
extra_dims(ys_ndim, added, t__ndim, t_ndim) ==
    ys_ndim - 3 + added + (t__ndim - t_ndim)

\* ys[(0,) * extra_dims]
index_zeros(ys, n) == DropFirst(ys, n)

\* the times the interpolant is evaluated at: a scalar or a 1-D array
TimeShapes == {<<>>} \cup {<<t>> : t \in 1..MaxT}

\* DiffraxInterpolant.__call__(t), on an interpolant whose leaves have one
\* batch axis (what diffrax's evaluate under the two vmaps supports)
Evaluate(tshape) ==
    /\ interpolant # NoInterp
    /\ Len(interpolant.batch) = 1
    /\ LET t_ == atleast_1d(tshape)
           ys == vmap_evaluate(interpolant.batch, t_)
           n  == extra_dims(Len(ys), interpolant.added_ndim, Len(t_), Len(tshape))
           out == index_zeros(ys, n)
       IN evaluated' = [t |-> tshape, extra_dims |-> n,
                        q |-> SubSeq(out, 1, Len(out) - 1) \o <<3>>,
                        p |-> SubSeq(out, 1, Len(out) - 1) \o <<3>>]
    /\ UNCHANGED <<diffeq_kw, pc, call, kw, attempts, outcome, w, interp, interpolant>>
    /\ UNCHANGED othersInt

\* the caller is done with the results of a call: the integrator is left
\* with its configuration, ready for the next call
NextCall ==
    /\ pc \in {"completed", "failed"}
    /\ pc' = "configured"
    /\ call' = NoCall
    /\ kw' = NoKw
    /\ attempts' = 0
    /\ outcome' = "none"
    /\ w' = <<>>
    /\ interp' = NoInterp
    /\ interpolant' = NoInterp
    /\ evaluated' = NoEval
    /\ UNCHANGED <<diffeq_kw, othersInt>>

IntNext ==
    \/ \E w0shape \in W0Shapes, tsshape \in TsShapes,
          interpolated \in BOOLEAN, need \in 1..MaxSteps :
            CallImplementation(w0shape, tsshape, interpolated, need)
    \/ ProcessInterpolation
    \/ \E tshape \in TimeShapes : Evaluate(tshape)
    \/ NextCall

-----------------------------------------------------------------------------
(* Units and quantities                                                    *)

\* the length and time units of the model, each with its size in the
\* smallest one (pc, Myr)
LengthScale == [pc |-> 1, kpc |-> 1000]
TimeScale == [Myr |-> 1, Gyr |-> 1000]

\* the unit systems a potential is bound to: unxt's galactic system, and a
\* custom one
UnitSystems ==
    [galactic |-> [length |-> "kpc", time |-> "Myr"],
     custom   |-> [length |-> "pc", time |-> "Gyr"]]

\* a value in unit `from` expressed in unit `to`
to_units_value(v, from, to, scale) == (v * scale[from]) \div scale[to]
Exact(v, from, to, scale) == (v * scale[from]) % scale[to] = 0

\* Quantity.constructor(t, unit): a value that carries a unit is converted to
\* `unit`, a unitless value is taken to be in `unit`
Quantity_constructor(t, unit) ==
    IF t.unit = "none" THEN [value |-> t.value, unit |-> unit]
    ELSE [value |-> to_units_value(t.value, t.unit, unit, TimeScale),
          unit |-> unit]

\* parse_to_quantity(q, unit=...): a position that carries a unit becomes the
\* Cartesian array in `unit`, a unitless array is taken to be in `unit`
parse_to_quantity(q, unit) ==
    IF q.unit = "none" THEN [value |-> q.value, unit |-> unit]
    ELSE [value |-> [i \in 1..3 |->
                        to_units_value(q.value[i], q.unit, unit, LengthScale)],
          unit |-> unit]

\* _convert_from_3dvec(pspt.q, units=...): the Cartesian components of the
\* typed vector, in the length unit of the unit system
_convert_from_3dvec(q, units) ==
    [value |-> [i \in 1..3 |->
                   to_units_value(q.value[i], q.unit, units.length, LengthScale)],
     unit |-> units.length]

-----------------------------------------------------------------------------
(* The dispatched operations of galax.potential._potential.funcs           *)

Ops == {"potential_energy", "gradient", "laplacian", "density", "hessian",
        "acceleration"}

\* the kinds of position argument
\*   vec3: cx.Abstract3DVector      quantity: unxt Quantity array
\*   jax: unitless jax array        numpy: unitless numpy array
\*   apyrep: astropy representation apyq: astropy Quantity
\*   pspt: phase-space position     fourvec: cx.FourVector
PositionalLike == {"vec3", "quantity", "jax"}
PsptLike == {"pspt", "fourvec"}

\* the astropy-side union in the signatures of each operation
APYLike(op) ==
    IF op \in {"potential_energy", "density", "hessian"}
    THEN {"apyrep", "apyq", "numpy"}
    ELSE {"apyrep", "apyq"}

\* plum's choice of method.  Only positional arguments take part: a call
\* op(q, t) has the signature (potential, q, t); both op(x) and op(q, t=t)
\* have the signature (potential, x).
resolve(op, qkind, npositional) ==
    IF npositional = 2
    THEN IF qkind \in PositionalLike THEN "q_t"
         ELSE IF qkind \in APYLike(op) THEN "apy_t"
         ELSE "NotFound"
    ELSE IF qkind \in PsptLike THEN "pspt"
         ELSE IF qkind \in PositionalLike THEN "q_kwt"
         ELSE IF qkind \in APYLike(op) THEN "apy_kwt"
         ELSE "NotFound"

\* the private routine each operation ends in
private(op) ==
    CASE op = "potential_energy" -> "_potential_energy"
      [] op = "gradient"         -> "_gradient"
      [] op = "laplacian"        -> "_laplacian"
      [] op = "density"          -> "_density"
      [] op = "hessian"          -> "_hessian"
      [] op = "acceleration"     -> "_gradient"

\* a slip: the astropy method of acceleration returns the gradient as it is
negated_but_astropy(op, method) == op = "acceleration" /\ method # "apy_t"

\* whether the method returns minus the private routine's value
negated(op, method) == op = "acceleration"

\* a slip: the keyword method of acceleration forwards to gradient
kw_target_copied(op, method) ==
    IF op = "acceleration" /\ method = "q_kwt" THEN "gradient" ELSE op

\* the public method potential.<op>(q, t) that a keyword-only method calls
kw_target(op, method) == op

\* NullPotential._potential_energy: zeros with galactic["specific energy"]
NullPotential_energy_units == "galactic"

\* the unit system in which a private routine's value is expressed
private_units(p, routine) ==
    IF p.model = "Null" /\ routine = "_potential_energy"
    THEN NullPotential_energy_units
    ELSE p.units

\* the value of sign * potential.<routine>(q, t): the routine applied to the
\* arguments it was handed
Apply(p, routine, q, t, neg) ==
    [status |-> "ok", routine |-> routine, q |-> q, t |-> t, neg |-> neg,
     units |-> private_units(p, routine)]

Raised(error) == [status |-> error]

\* -x of a result
Neg(r) == IF r.status = "ok" THEN [r EXCEPT !.neg = ~r.neg] ELSE r

\* the methods taking a phase-space position or a four-vector
pspt_method(p, op, x) ==
    Apply(p, private(op), _convert_from_3dvec(x, UnitSystems[p.units]), x.t,
          negated(op, "pspt"))

\* a slip: the time is handed on as it came
q_t_method_raw_time(p, op, method, q, t) ==
    Apply(p, private(op),
          parse_to_quantity(q, UnitSystems[p.units].length),
          [value |-> t.value, unit |-> t.unit],
          negated(op, method))

\* the methods taking (q, t), for the PositionalLike and the astropy kinds
q_t_method(p, op, method, q, t) ==
    Apply(p, private(op),
          parse_to_quantity(q, UnitSystems[p.units].length),
          Quantity_constructor(t, UnitSystems[p.units].time),
          negated(op, method))

\* potential.<op>(q, t): the public method calls the dispatched function
\* with the same arguments
public_method(p, op, q, t) ==
    LET method == resolve(op, q.kind, 2)
    IN IF method = "NotFound" THEN Raised("NotFoundLookupError")
       ELSE q_t_method(p, op, method, q, t)

NoTime == [kind |-> "none"]

\* a call op(potential, x), op(potential, q, t) or op(potential, q, t=t)
dispatch(p, op, form, q, t) ==
    LET method == resolve(op, q.kind, IF form = "positional" THEN 2 ELSE 1)
    IN CASE method = "NotFound" -> Raised("NotFoundLookupError")
         [] method \in {"q_t", "apy_t"} -> q_t_method(p, op, method, q, t)
         [] method = "pspt" ->
                IF form = "keyword" THEN Raised("TypeError")
                ELSE pspt_method(p, op, q)
         [] method \in {"q_kwt", "apy_kwt"} ->
                IF form = "single" THEN Raised("TypeError")
                ELSE public_method(p, kw_target(op, method), q, t)

-----------------------------------------------------------------------------
(* The inputs of the model                                                 *)

Potentials == [model : {"Null", "Kepler"}, units : DOMAIN UnitSystems]

PositionValues == {<<1000, 2000, 3000>>, <<0, 0, 2000>>}
TimeValues == {0, 1000}

\* times: unxt quantities, astropy quantities, unitless numbers
TimeInputs ==
    [kind : {"quantity", "apyq"}, value : TimeValues, unit : DOMAIN TimeScale]
    \cup [kind : {"unitless"}, value : TimeValues, unit : {"none"}]

\* positions given with a time argument
PositionInputs ==
    [kind : {"vec3", "quantity", "apyrep", "apyq"}, value : PositionValues,
     unit : DOMAIN LengthScale]
    \cup [kind : {"jax", "numpy"}, value : PositionValues, unit : {"none"}]

\* phase-space positions and four-vectors: a typed position and a time
PsptInputs ==
    [kind : PsptLike, value : PositionValues, unit : DOMAIN LengthScale,
     t : [value : TimeValues, unit : DOMAIN TimeScale]]

NoLast == [none |-> TRUE]

PotIdle ==
    /\ pot = [model |-> "Null", units |-> "galactic"]
    /\ args = [q |-> [kind |-> "jax", value |-> <<0, 0, 2000>>, unit |-> "none"],
               t |-> [kind |-> "unitless", value |-> 0, unit |-> "none"]]
    /\ last = NoLast

\* a potential, and a position and a time to evaluate it at
PotInit ==
    /\ pot \in Potentials
    /\ args \in [q : PositionInputs \cup PsptInputs, t : TimeInputs]
    /\ last = NoLast

\* op(potential, q, t)
CallPositional(op) ==
    /\ last = NoLast
    /\ last' = [op |-> op, form |-> "positional",
                result |-> dispatch(pot, op, "positional", args.q, args.t)]
    /\ UNCHANGED <<pot, args, othersPot>>

\* op(potential, q, t=t)
CallKeyword(op) ==
    /\ last = NoLast
    /\ last' = [op |-> op, form |-> "keyword",
                result |-> dispatch(pot, op, "keyword", args.q, args.t)]
    /\ UNCHANGED <<pot, args, othersPot>>

\* op(potential, pspt)
CallSingle(op) ==
    /\ last = NoLast
    /\ last' = [op |-> op, form |-> "single",
                result |-> dispatch(pot, op, "single", args.q, NoTime)]
    /\ UNCHANGED <<pot, args, othersPot>>

\* tidal_tensor(potential, q, /, t): t is a required parameter, positional or
\* keyword; J = hessian(potential, q, t) is always called with two positional
\* arguments.  The arithmetic on J is tidal_tensor(J) below.
tidal_tensor_hessian(p, form, q, t) ==
    IF form = "single" THEN Raised("TypeError")
    ELSE dispatch(p, "hessian", "positional", q, t)

\* tidal_tensor(potential, x), tidal_tensor(potential, q, t) and
\* tidal_tensor(potential, q, t=t)
CallTidalTensor(form) ==
    /\ last = NoLast
    /\ last' = [op |-> "tidal_tensor", form |-> form,
                result |-> tidal_tensor_hessian(pot, form, args.q,
                               IF form = "single" THEN NoTime ELSE args.t)]
    /\ UNCHANGED <<pot, args, othersPot>>

PotNext ==
    \/ \E op \in Ops : CallPositional(op)
    \/ \E op \in Ops : CallKeyword(op)
    \/ \E op \in Ops : CallSingle(op)
    \/ \E form \in {"single", "positional", "keyword"} : CallTidalTensor(form)

-----------------------------------------------------------------------------
(* Arrays with values, and exact arithmetic on their elements              *)

\* largest length of a batch axis of the hessian
MaxTidalBatch == 2

RECURSIVE GCD(_, _)
GCD(a, b) == IF b = 0 THEN a ELSE GCD(b, a % b)
Abs(n) == IF n < 0 THEN -n ELSE n

\* numbers are fractions <<numerator, denominator>> in lowest terms, so that
\* the division by 3 loses nothing
Frac(n, d) ==
    LET g == GCD(Abs(n), Abs(d))
        sgn == IF d < 0 THEN -1 ELSE 1
    IN <<sgn * (n \div g), sgn * (d \div g)>>
Num(n) == <<n, 1>>
FMul(a, b) == Frac(a[1] * b[1], a[2] * b[2])
FDiv(a, b) == Frac(a[1] * b[2], a[2] * b[1])
FAdd(a, b) == Frac(a[1] * b[2] + b[1] * a[2], a[2] * b[2])
FSub(a, b) == Frac(a[1] * b[2] - b[1] * a[2], a[2] * b[2])

\* the indices of an array of the given shape
RECURSIVE IndexSet(_)
IndexSet(shape) ==
    IF shape = <<>> THEN {<<>>}
    ELSE {<<i>> \o rest : i \in 1..Head(shape), rest \in IndexSet(Tail(shape))}

\* an array: its shape and its elements
Array(shape, at) == [shape |-> shape, at |-> at]

\* numpy broadcasting of two shapes
BroadcastShapes(a, b) == broadcast_shape(<<a, b>>)

\* the index into an array of shape `shape` that index idx of the broadcast
\* result reads
BroadcastIndex(shape, idx) ==
    [k \in 1..Len(shape) |->
        IF shape[k] = 1 THEN 1 ELSE idx[k + Len(idx) - Len(shape)]]

\* a * b, element-wise with broadcasting
Multiply(a, b) ==
    Array(BroadcastShapes(a.shape, b.shape),
          [idx \in IndexSet(BroadcastShapes(a.shape, b.shape)) |->
              FMul(a.at[BroadcastIndex(a.shape, idx)],
                   b.at[BroadcastIndex(b.shape, idx)])])

\* a / b, element-wise with broadcasting
Divide(a, b) ==
    Array(BroadcastShapes(a.shape, b.shape),
          [idx \in IndexSet(BroadcastShapes(a.shape, b.shape)) |->
              FDiv(a.at[BroadcastIndex(a.shape, idx)],
                   b.at[BroadcastIndex(b.shape, idx)])])

\* a - b, element-wise with broadcasting
Subtract(a, b) ==
    Array(BroadcastShapes(a.shape, b.shape),
          [idx \in IndexSet(BroadcastShapes(a.shape, b.shape)) |->
              FSub(a.at[BroadcastIndex(a.shape, idx)],
                   b.at[BroadcastIndex(b.shape, idx)])])

\* xp.eye(3)
eye3 ==
    Array(<<3, 3>>,
          [idx \in IndexSet(<<3, 3>>) |-> IF idx[1] = idx[2] THEN Num(1) ELSE Num(0)])

\* a scalar as a 0-dimensional array
Scalar(x) == Array(<<>>, [idx \in IndexSet(<<>>) |-> x])

\* qnp.trace(J, axis1=-2, axis2=-1)
trace(J) ==
    Array(SubSeq(J.shape, 1, Len(J.shape) - 2),
          [idx \in IndexSet(SubSeq(J.shape, 1, Len(J.shape) - 2)) |->
              FAdd(FAdd(J.at[idx \o <<1, 1>>], J.at[idx \o <<2, 2>>]),
                   J.at[idx \o <<3, 3>>])])

\* batched_shape(arr, expect_ndim=n): the batch shape and the array shape
batched_shape(arr, expect_ndim) ==
    << SubSeq(arr.shape, 1, Len(arr.shape) - expect_ndim),
       SubSeq(arr.shape, Len(arr.shape) - expect_ndim + 1, Len(arr.shape)) >>

Ones(n) == [k \in 1..n |-> 1]

\* expand_batch_dims(arr, ndim=n): n leading axes of length 1
expand_batch_dims(arr, ndim) ==
    Array(Ones(ndim) \o arr.shape,
          [idx \in IndexSet(Ones(ndim) \o arr.shape) |-> arr.at[DropFirst(idx, ndim)]])

\* expand_arr_dims(arr, ndim=n): n trailing axes of length 1
expand_arr_dims(arr, ndim) ==
    Array(arr.shape \o Ones(ndim),
          [idx \in IndexSet(arr.shape \o Ones(ndim)) |->
              arr.at[SubSeq(idx, 1, Len(arr.shape))]])

-----------------------------------------------------------------------------
(* tidal_tensor                                                            *)

\* a slip: the trace term without the identity
traced_without_identity(J) ==
    Divide(expand_arr_dims(trace(J), Len(batched_shape(J, 2)[2])),
           Scalar(Num(3)))

\* traced = expand_batch_dims(xp.eye(3), ndim=len(batch_shape))
\*          * expand_arr_dims(qnp.trace(J, axis1=-2, axis2=-1), ndim=len(arr_shape))
\*          / 3
traced(J) ==
    Divide(Multiply(expand_batch_dims(eye3, Len(batched_shape(J, 2)[1])),
                    expand_arr_dims(trace(J), Len(batched_shape(J, 2)[2]))),
           Scalar(Num(3)))

\* tidal_tensor(potential, q, t), with J = hessian(potential, q, t)
tidal_tensor(J) == Subtract(J, traced(J))

\* the hessians of the model: symmetric matrices
DiagonalValues == {0, 1}
OffDiagonalValues == {-2, 1}
HessianMatrices ==
    {[i \in 1..3 |-> [j \in 1..3 |->
         IF i = j THEN d[i] ELSE o + i + j] ] :
       d \in [1..3 -> DiagonalValues], o \in OffDiagonalValues}

\* the batch shapes of the hessian: none, one axis, two axes of which one
\* has length 1
TidalBatches ==
    {<<>>} \cup {<<n>> : n \in 1..MaxTidalBatch}
           \cup {<<1, n>> : n \in 1..MaxTidalBatch}
           \cup {<<n, 1>> : n \in 1..MaxTidalBatch}

\* the arrays of shape batch+(3,3) with matrices of the model
Hessians ==
    UNION {{ Array(b \o <<3, 3>>,
               [idx \in IndexSet(b \o <<3, 3>>) |->
                   Num(m[SubSeq(idx, 1, Len(b))][idx[Len(b) + 1]][idx[Len(b) + 2]])]) :
             m \in [IndexSet(b) -> HessianMatrices] } : b \in TidalBatches}

NoArray == [none |-> TRUE]

TidalIdle == tt = [J |-> NoArray, out |-> NoArray]

TidalInit == tt \in [J : Hessians, out : {NoArray}]

TidalTensor ==
    /\ tt.J # NoArray
    /\ tt.out = NoArray
    /\ tt' = [tt EXCEPT !.out = tidal_tensor(tt.J)]
    /\ UNCHANGED othersTidal

TidalNext == TidalTensor

-----------------------------------------------------------------------------
(* Specifications                                                          *)

IntIdle ==
    /\ diffeq_kw = [max_steps |-> None, discrete_terminating_event |-> None]
    /\ pc = "configured"
    /\ call = NoCall
    /\ kw = NoKw
    /\ attempts = 0
    /\ outcome = "none"
    /\ w = <<>>
    /\ interp = NoInterp
    /\ interpolant = NoInterp
    /\ evaluated = NoEval

NoBuiltin == [none |-> TRUE]
NoSpecial == [none |-> TRUE]
NoGala == [none |-> TRUE]
NoPsp == [none |-> TRUE]
BuiltinIdle == builtin = NoBuiltin
SpecialIdle == special = NoSpecial
GalaIdle == gala = NoGala
PspIdle == psp = NoPsp
NoStream == [none |-> TRUE]
NoItem == [none |-> TRUE]
StreamIdle == stream = NoStream /\ item = NoItem
RestIdle == BuiltinIdle /\ SpecialIdle /\ GalaIdle /\ PspIdle /\ StreamIdle

InitInt == IntInit /\ PotIdle /\ TidalIdle /\ RestIdle
InitPot == PotInit /\ IntIdle /\ TidalIdle /\ RestIdle
InitTidal == TidalInit /\ IntIdle /\ PotIdle /\ RestIdle

\* the integrator and its interpolant
SpecInt ==
    InitInt /\ [][IntNext]_vars

\* the dispatched operations of a potential
SpecPot ==
    InitPot /\ [][PotNext]_vars

\* tidal_tensor on the hessians of the model
SpecTidal ==
    InitTidal /\ [][TidalNext]_vars

-----------------------------------------------------------------------------
(* Builtin potentials: TriaxialHernquistPotential, PowerLawCutoffPotential *)

\* the times a potential is evaluated at
BuiltinTimes == {0, 1}

\* values of the scale length c of a TriaxialHernquistPotential, in the unit
\* it is given in; a parameter is a function of time
CValues == {-1000, 0, 1000}
CParameters == [value : [BuiltinTimes -> CValues], unit : DOMAIN LengthScale]

\* values of the power-law index alpha of a PowerLawCutoffPotential
AlphaValues == {-1, 0, 1, 2, 3, 4}
AlphaParameters == [value : [BuiltinTimes -> AlphaValues]]

\* self.c(t): the parameter at time t, in the potential's length unit
parameter_call(param, t, unit) ==
    [value |-> to_units_value(param.value[t], param.unit, unit, LengthScale),
     unit |-> unit]

\* a slip: only a negative c is an error
error_if_negative(c) == c.value < 0

\* eqx.error_if(c, c.value <= 0, "c must be positive")
error_if(c) == c.value <= 0

\* TriaxialHernquistPotential._potential_energy(q, t)
TriaxialHernquist_potential_energy(p, q, t) ==
    LET c == parameter_call(p.c, t, UnitSystems[p.units].length)
    IN IF error_if(c) THEN Raised("c must be positive")
       ELSE [status |-> "ok", value |-> "-G m_tot / (rprime + c)", c |-> c]

\* _safe_gamma_inc(a, x) = gammainc(a, x) * gamma(a) for a = twice_a / 2:
\* gammainc is nan for a <= 0; nothing is raised
safe_gamma_inc(twice_a) == IF twice_a <= 0 THEN "nan" ELSE "finite"

\* PowerLawCutoffPotential._potential_energy(q, t): a = alpha / 2, with the
\* terms _safe_gamma_inc(1.5 - a, rp2) and _safe_gamma_inc(1 - a, rp2); no
\* check of alpha is made
PowerLawCutoff_potential_energy(p, q, t) ==
    LET alpha == p.alpha.value[t]
    IN [status |-> "ok",
        value |-> IF safe_gamma_inc(3 - alpha) = "nan"
                     \/ safe_gamma_inc(2 - alpha) = "nan"
                  THEN "nan" ELSE "finite",
        alpha |-> alpha]

NoEnergy == [none |-> TRUE]

\* TriaxialHernquistPotential(m_tot=..., c=c, units=units): the fields are
\* stored; no value is checked
ConstructTriaxialHernquist(c, units) ==
    /\ builtin = NoBuiltin
    /\ builtin' = [model |-> "TriaxialHernquist", units |-> units, c |-> c,
                   at |-> NoEnergy, energy |-> NoEnergy]
    /\ UNCHANGED othersBuiltin

\* PowerLawCutoffPotential(m_tot=..., alpha=alpha, r_c=..., units=units)
ConstructPowerLawCutoff(alpha, units) ==
    /\ builtin = NoBuiltin
    /\ builtin' = [model |-> "PowerLawCutoff", units |-> units, alpha |-> alpha,
                   at |-> NoEnergy, energy |-> NoEnergy]
    /\ UNCHANGED othersBuiltin

\* pot._potential_energy(q, t) of the potential constructed
PotentialEnergy(q, t) ==
    /\ builtin # NoBuiltin
    /\ builtin.energy = NoEnergy
    /\ builtin' =
          [builtin EXCEPT
             !.at = [q |-> q, t |-> t],
             !.energy =
                IF builtin.model = "TriaxialHernquist"
                THEN TriaxialHernquist_potential_energy(builtin, q, t)
                ELSE PowerLawCutoff_potential_energy(builtin, q, t)]
    /\ UNCHANGED othersBuiltin

BuiltinNext ==
    \/ \E c \in CParameters, units \in DOMAIN UnitSystems :
           ConstructTriaxialHernquist(c, units)
    \/ \E alpha \in AlphaParameters, units \in DOMAIN UnitSystems :
           ConstructPowerLawCutoff(alpha, units)
    \/ \E q \in PositionValues, t \in BuiltinTimes : PotentialEnergy(q, t)

InitBuiltin ==
    IntIdle /\ PotIdle /\ TidalIdle /\ BuiltinIdle /\ SpecialIdle /\ GalaIdle
        /\ PspIdle /\ StreamIdle

\* construction and evaluation of the builtin potentials
SpecBuiltin ==
    InitBuiltin /\ [][BuiltinNext]_vars

-----------------------------------------------------------------------------
(* The Milky Way composites of galax.potential._potential.special          *)

\* a Quantity(value, unit); a plain float has no unit and no .value
Q(value, unit) == [value |-> value, unit |-> unit]
Float(value) == [value |-> value, unit |-> "float"]

\* BovyMWPotential2014._default_disk, _default_bulge, _default_halo
BovyMWPotential2014_defaults ==
    [disk  |-> [m_tot |-> Q("68193902782.346756", "Msun"),
                a |-> Q("3.0", "kpc"), b |-> Q("280", "pc")],
     bulge |-> [m_tot |-> Q("4501365375.06545", "Msun"),
                alpha |-> Float("1.8"), r_c |-> Q("1.9", "kpc")],
     halo  |-> [m |-> Q("4.3683325e11", "Msun"), r_s |-> Q("16", "kpc")]]

\* MilkyWayPotential._default_disk, _default_halo, _default_bulge,
\* _default_nucleus
MilkyWayPotential_defaults ==
    [disk    |-> [m_tot |-> Q("6.8e10", "Msun"),
                  a |-> Q("3.0", "kpc"), b |-> Q("0.28", "kpc")],
     halo    |-> [m |-> Q("5.4e11", "Msun"), r_s |-> Q("15.62", "kpc")],
     bulge   |-> [m_tot |-> Q("5e9", "Msun"), c |-> Q("1.0", "kpc")],
     nucleus |-> [m_tot |-> Q("1.71e9", "Msun"), c |-> Q("0.07", "kpc")]]

\* the class of each component
BovyMWPotential2014_classes ==
    [disk |-> "MiyamotoNagaiPotential", bulge |-> "PowerLawCutoffPotential",
     halo |-> "NFWPotential"]
MilkyWayPotential_classes ==
    [disk |-> "MiyamotoNagaiPotential", halo |-> "NFWPotential",
     bulge |-> "HernquistPotential", nucleus |-> "HernquistPotential"]

SpecialDefaults ==
    [BovyMWPotential2014 |-> BovyMWPotential2014_defaults,
     MilkyWayPotential |-> MilkyWayPotential_defaults]
SpecialClasses ==
    [BovyMWPotential2014 |-> BovyMWPotential2014_classes,
     MilkyWayPotential |-> MilkyWayPotential_classes]

\* the unit systems a composite is constructed with
SpecialUnits == {"galactic", "dimensionless"}

\* v.value of every default: a float has no attribute `value`
strip_raises(default) == \E k \in DOMAIN default : default[k].unit = "float"
strip(default) == [k \in DOMAIN default |-> Q(default[k].value, "none")]

\* dict(default) | dict(instance or {})
merge(default, instance) ==
    [k \in DOMAIN default \cup DOMAIN instance |->
        IF k \in DOMAIN instance THEN instance[k] ELSE default[k]]

\* isinstance(instance, cls): a constructed potential, rather than a mapping
\* of parameters
isinstance(instance, cls) ==
    "cls" \in DOMAIN instance /\ instance.cls = cls

\* _parse_input_comp(cls, instance, default, units): an instance of cls is
\* returned as it is; for a mapping or None, cls(units=units, **params)
\* binds the parameters
_parse_input_comp(cls, instance, default, units) ==
    IF isinstance(instance, cls)
    THEN instance
    ELSE IF units = "dimensionless" /\ strip_raises(default)
    THEN Raised("AttributeError")
    ELSE [status |-> "ok", cls |-> cls, units |-> units,
          params |-> merge(IF units = "dimensionless" THEN strip(default)
                           ELSE default,
                           instance)]

\* the value a caller overrides a parameter with
CallerValue(k) == IF k = "alpha" THEN Float("1.0") ELSE Q("7.0", "caller")

\* None, or a mapping with some of the component's parameters.  None and
\* the empty mapping are alike to `instance or {}`.
ComponentMappings(default) ==
    {[k \in keys |-> CallerValue(k)] : keys \in SUBSET DOMAIN default}

\* the unit systems a caller's own component was constructed with
InstanceUnits == {"galactic", "solarsystem"}

\* cls(units=u, **default), constructed by the caller beforehand
ComponentInstances(cls, default) ==
    {[status |-> "ok", cls |-> cls, units |-> u, params |-> default] :
        u \in InstanceUnits}

\* what a caller passes for a component: None or a mapping, or an instance
\* of the component's class
ComponentInputs(composite, n) ==
    ComponentMappings(SpecialDefaults[composite][n])
        \cup ComponentInstances(SpecialClasses[composite][n],
                                SpecialDefaults[composite][n])

\* __init__ of the composites: every component goes through
\* _parse_input_comp; an error in one of them ends the construction
special_init(composite, inputs, units) ==
    LET comps == [n \in DOMAIN SpecialDefaults[composite] |->
                     _parse_input_comp(SpecialClasses[composite][n], inputs[n],
                                       SpecialDefaults[composite][n], units)]
    IN [composite |-> composite, units |-> units, inputs |-> inputs,
        status |-> IF \E n \in DOMAIN comps : comps[n].status # "ok"
                   THEN "AttributeError" ELSE "ok",
        data |-> comps]

\* BovyMWPotential2014(disk=..., bulge=..., halo=..., units=units)
ConstructBovyMWPotential2014(disk, bulge, halo, units) ==
    /\ special = NoSpecial
    /\ special' = special_init("BovyMWPotential2014",
                                [disk |-> disk, bulge |-> bulge, halo |-> halo],
                                units)
    /\ UNCHANGED othersSpecial

\* MilkyWayPotential(disk=..., halo=..., bulge=..., nucleus=..., units=units)
ConstructMilkyWayPotential(disk, halo, bulge, nucleus, units) ==
    /\ special = NoSpecial
    /\ special' = special_init("MilkyWayPotential",
                                [disk |-> disk, halo |-> halo, bulge |-> bulge,
                                 nucleus |-> nucleus],
                                units)
    /\ UNCHANGED othersSpecial

SpecialNext ==
    \/ \E disk \in ComponentInputs("BovyMWPotential2014", "disk"),
          bulge \in ComponentInputs("BovyMWPotential2014", "bulge"),
          halo \in ComponentInputs("BovyMWPotential2014", "halo"),
          units \in SpecialUnits :
           ConstructBovyMWPotential2014(disk, bulge, halo, units)
    \/ \E disk \in ComponentInputs("MilkyWayPotential", "disk"),
          halo \in ComponentInputs("MilkyWayPotential", "halo"),
          bulge \in ComponentInputs("MilkyWayPotential", "bulge"),
          nucleus \in ComponentInputs("MilkyWayPotential", "nucleus"),
          units \in SpecialUnits :
           ConstructMilkyWayPotential(disk, halo, bulge, nucleus, units)

InitSpecial ==
    IntIdle /\ PotIdle /\ TidalIdle /\ BuiltinIdle /\ SpecialIdle /\ GalaIdle
        /\ PspIdle /\ StreamIdle

\* construction of the Milky Way composites
SpecSpecial ==
    InitSpecial /\ [][SpecialNext]_vars

-----------------------------------------------------------------------------
(* PhaseSpacePosition of galax.coordinates._psp.core                       *)

\* t=None
NoT == [none |-> TRUE]

\* batch shapes of the position and the momentum (q.shape of a 3-vector is
\* its batch shape), and shapes of the time
MaxPspBatch == 2
PspBatches ==
    {<<>>} \cup {<<n>> : n \in 1..(MaxPspBatch + 1)}
           \cup {<<1, MaxPspBatch>>, <<MaxPspBatch, MaxPspBatch>>,
                 <<MaxPspBatch, 1, MaxPspBatch>>}
PspTimes == {NoT} \cup {[shape |-> b] : b \in PspBatches}

\* no shape query made yet
NoShape == [none |-> TRUE]

\* the shape of expand_batch_dims(t, ndim=n)
expand_batch_dims_shape(shape, ndim) == Ones(ndim) \o shape

\* PhaseSpacePosition.__post_init__: the shape of the stored time
post_init_t(q, t) ==
    IF t # NoT /\ Len(t.shape) \in {0, 1}
    THEN [shape |-> expand_batch_dims_shape(t.shape, Len(q) - Len(t.shape))]
    ELSE t

\* PhaseSpacePosition(q=q, p=p, t=t)
ConstructPhaseSpacePosition(q, p, t) ==
    /\ psp = NoPsp
    /\ psp' = [q |-> q, p |-> p, t |-> post_init_t(q, t), given_t |-> t,
               shape |-> NoShape]
    /\ UNCHANGED othersPsp

\* PhaseSpacePosition._shape_tuple: jnp.broadcast_shapes(qbatch, pbatch,
\* tbatch) raises ValueError for shapes that do not broadcast
_shape_tuple(x) ==
    LET tbatch == IF x.t = NoT THEN <<>> ELSE x.t.shape
    IN IF BroadcastCompatible(<<x.q, x.p, tbatch>>)
       THEN [status |-> "ok", batch_shape |-> broadcast_shape(<<x.q, x.p, tbatch>>)]
       ELSE Raised("ValueError")

\* psp.shape, the first shape query on the object
ShapeQuery ==
    /\ psp # NoPsp
    /\ psp.shape = NoShape
    /\ psp' = [psp EXCEPT !.shape = _shape_tuple(psp)]
    /\ UNCHANGED othersPsp

PspNext ==
    \/ \E q \in PspBatches, p \in PspBatches, t \in PspTimes :
           ConstructPhaseSpacePosition(q, p, t)
    \/ ShapeQuery

InitPsp ==
    IntIdle /\ PotIdle /\ TidalIdle /\ BuiltinIdle /\ SpecialIdle /\ GalaIdle
        /\ PspIdle /\ StreamIdle

\* construction of phase-space positions
SpecPsp ==
    InitPsp /\ [][PspNext]_vars

-----------------------------------------------------------------------------
(* gala_to_galax of galax.potential._potential.io._gala                    *)

\* the foreign types the converter has a function registered for
\* (@gala_to_galax.register); KuzminPotential and LogarithmicPotential are
\* keys of _GALA_TO_GALAX_REGISTRY but have no function registered
Registered ==
    {"CompositePotential", "HernquistPotential", "IsochronePotential",
     "KeplerPotential", "MiyamotoNagaiPotential", "PlummerPotential",
     "PowerLawCutoffPotential", "NullPotential", "NFWPotential",
     "LeeSutoTriaxialNFWPotential", "BovyMWPotential2014",
     "MilkyWayPotential"}

\* _GALA_TO_GALAX_REGISTRY
GALA_TO_GALAX_REGISTRY ==
    {"HernquistPotential", "IsochronePotential", "KeplerPotential",
     "KuzminPotential", "LogarithmicPotential", "MiyamotoNagaiPotential",
     "PlummerPotential", "PowerLawCutoffPotential"}

\* the types handled by _gala_to_galax_registered
RegisteredGeneric ==
    {"HernquistPotential", "IsochronePotential", "KeplerPotential",
     "MiyamotoNagaiPotential", "PlummerPotential", "PowerLawCutoffPotential"}

\* the parameters of the foreign potentials, each standing for its value
GalaParameters ==
    [HernquistPotential |-> [m |-> "m", c |-> "c"],
     IsochronePotential |-> [m |-> "m", b |-> "b"],
     KeplerPotential |-> [m |-> "m"],
     KuzminPotential |-> [m |-> "m", a |-> "a"],
     LogarithmicPotential |-> [v_c |-> "v_c", r_h |-> "r_h"],
     MiyamotoNagaiPotential |-> [m |-> "m", a |-> "a", b |-> "b"],
     PlummerPotential |-> [m |-> "m", b |-> "b"],
     PowerLawCutoffPotential |-> [m |-> "m", alpha |-> "alpha", r_c |-> "r_c"],
     NullPotential |-> <<>>,
     NFWPotential |-> [m |-> "m", r_s |-> "r_s"],
     LeeSutoTriaxialNFWPotential |->
         [v_c |-> "v_c", r_s |-> "r_s", a |-> "a", b |-> "b", c |-> "c"]]

\* functools.singledispatch: the function registered for the first class of
\* the method resolution order that has one; the base function otherwise
singledispatch(mro) ==
    IF \E i \in 1..Len(mro) : mro[i] \in Registered
    THEN mro[CHOOSE i \in 1..Len(mro) :
                /\ mro[i] \in Registered
                /\ \A j \in 1..(i - 1) : mro[j] \notin Registered]
    ELSE "PotentialBase"

\* _apply_frame(_get_frame(gala), pot): the potential itself when the frame
\* simplifies to the identity, a PotentialFrame around it otherwise
_apply_frame(frame, p) ==
    IF frame = "identity" THEN p
    ELSE [status |-> "ok", cls |-> "PotentialFrame", frame |-> frame,
          original_potential |-> p]

\* a galax potential constructed by cls(**params, units=units)
Constructed(cls, params, units) ==
    [status |-> "ok", cls |-> cls, params |-> params, units |-> units]

\* params = dict(gala.parameters); params["m_tot"] = params.pop("m")
m_to_m_tot(params) ==
    [k \in (DOMAIN params \ {"m"}) \cup {"m_tot"} |->
        IF k = "m_tot" THEN params["m"] ELSE params[k]]

\* _gala_to_galax_registered
_gala_to_galax_registered(g) ==
    IF g.units = "dimensionless" THEN Raised("TypeError")
    ELSE IF "m" \notin DOMAIN g.parameters THEN Raised("KeyError")
    ELSE IF g.type \notin GALA_TO_GALAX_REGISTRY THEN Raised("KeyError")
    ELSE _apply_frame(g.frame,
                      Constructed(g.type, m_to_m_tot(g.parameters), g.units))

\* _gala_to_galax_null
_gala_to_galax_null(g) == Constructed("NullPotential", <<>>, "dimensionless")

\* a slip: the frame of the source is left out
_gala_to_galax_nfw_unframed(g) ==
    Constructed("NFWPotential",
                [m |-> g.parameters.m, r_s |-> g.parameters.r_s], g.units)

\* _gala_to_galax_nfw
_gala_to_galax_nfw(g) ==
    _apply_frame(g.frame,
                 Constructed("NFWPotential",
                             [m |-> g.parameters.m, r_s |-> g.parameters.r_s],
                             g.units))

\* _gala_to_galax_leesutotriaxialnfw
_gala_to_galax_leesutotriaxialnfw(g) ==
    Constructed("LeeSutoTriaxialNFWPotential",
                [m |-> "v_c ** 2 * r_s / G", r_s |-> g.parameters.r_s,
                 a1 |-> g.parameters.a, a2 |-> g.parameters.b,
                 a3 |-> g.parameters.c],
                g.units)

RECURSIVE gala_to_galax(_)

\* a slip: a component that cannot be converted is left out
comprehension_dropping(items) ==
    LET conv == [i \in DOMAIN items |->
                    [name |-> items[i].name,
                     potential |-> gala_to_galax(items[i].potential)]]
    IN [status |-> "ok",
        items |-> SelectSeq(conv, LAMBDA c : c.potential.status = "ok")]

\* {k: gala_to_galax(p) for k, p in pot.items()}: the components are
\* converted in order; the first error ends the comprehension
comprehension(items) ==
    LET conv == [i \in DOMAIN items |->
                    [name |-> items[i].name,
                     potential |-> gala_to_galax(items[i].potential)]]
        failed == {i \in DOMAIN items : conv[i].potential.status # "ok"}
    IN IF failed = {} THEN [status |-> "ok", items |-> conv]
       ELSE conv[CHOOSE i \in failed : \A j \in failed : i <= j].potential

\* a composite constructed from named components: mapping-like, in
\* insertion order
CompositeOf(cls, items) == [status |-> "ok", cls |-> cls, items |-> items]

\* a slip: the components are inserted last first
_gala_to_galax_composite_reversed(g) ==
    LET c == comprehension(g.items)
    IN IF c.status # "ok" THEN c
       ELSE CompositeOf("CompositePotential",
                        [i \in DOMAIN c.items |->
                            c.items[Len(c.items) + 1 - i]])

\* _gala_to_galax_composite
_gala_to_galax_composite(g) ==
    LET c == comprehension(g.items)
    IN IF c.status # "ok" THEN c
       ELSE CompositeOf("CompositePotential", c.items)

\* _gala_to_galax_bovymw2014 and _gala_to_galax_mw: pot["disk"], ... are
\* converted in the order of the keyword arguments and handed to the
\* composite of the same name
_gala_to_galax_special(g, names) ==
    LET c == comprehension(
                 [i \in DOMAIN names |->
                     CHOOSE it \in {g.items[j] : j \in DOMAIN g.items} :
                         it.name = names[i]])
    IN IF c.status # "ok" THEN c ELSE CompositeOf(g.type, c.items)

\* gala_to_galax(pot): the function singledispatch finds for type(pot)
gala_to_galax(g) ==
    LET f == singledispatch(g.mro)
    IN CASE f = "PotentialBase" -> Raised("NotImplementedError")
         [] f = "CompositePotential" -> _gala_to_galax_composite(g)
         [] f \in RegisteredGeneric -> _gala_to_galax_registered(g)
         [] f = "NullPotential" -> _gala_to_galax_null(g)
         [] f = "NFWPotential" -> _gala_to_galax_nfw(g)
         [] f = "LeeSutoTriaxialNFWPotential" ->
                _gala_to_galax_leesutotriaxialnfw(g)
         [] f = "BovyMWPotential2014" ->
                _gala_to_galax_special(g, <<"disk", "bulge", "halo">>)
         [] f = "MilkyWayPotential" ->
                _gala_to_galax_special(g, <<"disk", "halo", "bulge", "nucleus">>)

\* the foreign potentials of the model
GalaUnits == {"galactic", "dimensionless"}
GalaFrames == {"identity", "moved"}
Foreign(type, units, frame) ==
    [type |-> type, mro |-> <<type, "PotentialBase">>, units |-> units,
     frame |-> frame, parameters |-> GalaParameters[type]]
SimpleSources ==
    {Foreign(type, units, frame) :
        type \in DOMAIN GalaParameters, units \in GalaUnits,
        frame \in GalaFrames}

Item(name, p) == [name |-> name, potential |-> p]
ForeignComposite(type, items) ==
    [type |-> type, mro |-> <<type, "CompositePotential", "PotentialBase">>,
     items |-> items]

\* gp.CompositePotential with one or two named components
CompositeItems ==
    {<<Item(n, a)>> : n \in {"disk", "halo"}, a \in SimpleSources}
    \cup {<<Item(n[1], a), Item(n[2], b)>> :
             n \in {<<"disk", "halo">>, <<"halo", "disk">>},
             a \in SimpleSources, b \in SimpleSources}
CompositeSources ==
    {[type |-> "CompositePotential",
      mro |-> <<"CompositePotential", "PotentialBase">>,
      items |-> items] : items \in CompositeItems}

\* gp.BovyMWPotential2014() and gp.MilkyWayPotential()
SpecialSources ==
    {ForeignComposite("BovyMWPotential2014",
        <<Item("disk", Foreign("MiyamotoNagaiPotential", "galactic", "identity")),
          Item("bulge", Foreign("PowerLawCutoffPotential", "galactic", "identity")),
          Item("halo", Foreign("NFWPotential", "galactic", "identity"))>>),
     ForeignComposite("MilkyWayPotential",
        <<Item("disk", Foreign("MiyamotoNagaiPotential", "galactic", "identity")),
          Item("bulge", Foreign("HernquistPotential", "galactic", "identity")),
          Item("nucleus", Foreign("HernquistPotential", "galactic", "identity")),
          Item("halo", Foreign("NFWPotential", "galactic", "identity"))>>)}

\* class Subclass(base): a caller's subclass of a foreign potential type;
\* its method resolution order goes through the base
ForeignSubclass(base, units, frame) ==
    [type |-> "Subclass", mro |-> <<"Subclass", base, "PotentialBase">>,
     units |-> units, frame |-> frame, parameters |-> GalaParameters[base]]
SubclassSources ==
    {ForeignSubclass(base, units, frame) :
        base \in DOMAIN GalaParameters, units \in GalaUnits,
        frame \in GalaFrames}

GalaSources ==
    SimpleSources \cup SubclassSources \cup CompositeSources
        \cup SpecialSources

NoConversion == [none |-> TRUE]

\* a foreign potential in a caller's hands
GalaInit == gala \in [source : GalaSources, result : {NoConversion}]

\* gala_to_galax(pot)
GalaToGalax ==
    /\ gala # NoGala
    /\ gala.result = NoConversion
    /\ gala' = [gala EXCEPT !.result = gala_to_galax(gala.source)]
    /\ UNCHANGED othersGala

GalaNext == GalaToGalax

InitGala ==
    GalaInit /\ IntIdle /\ PotIdle /\ TidalIdle /\ BuiltinIdle /\ SpecialIdle
        /\ PspIdle /\ StreamIdle

\* conversion of foreign potentials
SpecGala ==
    InitGala /\ [][GalaNext]_vars

-----------------------------------------------------------------------------
(* MockStream of galax.dynamics._dynamics.mockstream.core                  *)

\* the largest number of particles of a stream
MaxParticles == 3

\* a field of a stream: the particles whose values it holds, in order, and
\* its number of batch dimensions (1, or 0 after an integer index)
Field(ids) == [ndim |-> 1, ids |-> ids]
Particles(n) == [i \in 1..n |-> i]

\* the index forms: integer, slice, tuple, integer array (0-based)
IntIndexes == [kind : {"int"}, i : 0..(MaxParticles - 1)]
SliceIndexes ==
    {[kind |-> "slice", start |-> a, stop |-> b] :
        a \in 0..MaxParticles, b \in 0..MaxParticles}
ArrayIndexes ==
    {[kind |-> "array", idx |-> <<i>>] : i \in 0..(MaxParticles - 1)}
    \cup {[kind |-> "array", idx |-> <<i, j>>] :
             i \in 0..(MaxParticles - 1), j \in 0..(MaxParticles - 1)}
TupleIndexes ==
    {[kind |-> "tuple", items |-> <<>>]}
    \cup {[kind |-> "tuple", items |-> <<x>>] : x \in IntIndexes \cup SliceIndexes}
Indexes == IntIndexes \cup SliceIndexes \cup ArrayIndexes \cup TupleIndexes

\* the integers an index names
IndexInts(index) ==
    CASE index.kind = "int" -> {index.i}
      [] index.kind = "array" -> {index.idx[k] : k \in DOMAIN index.idx}
      [] index.kind = "tuple" ->
            {index.items[k].i : k \in {j \in DOMAIN index.items :
                                          index.items[j].kind = "int"}}
      [] OTHER -> {}

\* f[index] of a 1-D field: an integer takes one particle and the axis, a
\* slice takes a run (clamped to the length), an array takes the particles
\* it names, the empty tuple takes everything
index_1d(f, index) ==
    CASE index.kind = "int" -> [ndim |-> 0, ids |-> <<f.ids[index.i + 1]>>]
      [] index.kind = "slice" ->
            [ndim |-> 1,
             ids |-> SubSeq(f.ids, index.start + 1,
                            IF index.stop < Len(f.ids) THEN index.stop
                            ELSE Len(f.ids))]
      [] index.kind = "array" ->
            [ndim |-> 1,
             ids |-> [k \in DOMAIN index.idx |-> f.ids[index.idx[k] + 1]]]

getitem_field(f, index) ==
    IF index.kind = "tuple"
    THEN IF index.items = <<>> THEN f ELSE index_1d(f, index.items[1])
    ELSE index_1d(f, index)

\* getitem_vec1time_index(index, t): the index of the time-like fields that
\* selects the particles `index` selects
getitem_vec1time_index(index, t) == index

\* a slip: the release times are not indexed
getitem_release_time_kept(self, index) ==
    LET subindex == getitem_vec1time_index(index, self.t)
    IN [q |-> getitem_field(self.q, index),
        p |-> getitem_field(self.p, index),
        t |-> getitem_field(self.t, subindex),
        release_time |-> self.release_time]

\* MockStream.__getitem__
getitem(self, index) ==
    LET subindex == getitem_vec1time_index(index, self.t)
    IN [q |-> getitem_field(self.q, index),
        p |-> getitem_field(self.p, index),
        t |-> getitem_field(self.t, subindex),
        release_time |-> getitem_field(self.release_time, subindex)]

\* MockStream(q=q, p=p, t=t, release_time=release_time): the fields are
\* converted and stored
ConstructMockStream(n, nt, nr) ==
    /\ stream = NoStream
    /\ stream' = [q |-> Field(Particles(n)), p |-> Field(Particles(n)),
                  t |-> Field(Particles(nt)),
                  release_time |-> Field(Particles(nr))]
    /\ item' = NoItem
    /\ UNCHANGED othersStream

\* the fields of a stream
StreamFields(ms) == {ms.q, ms.p, ms.t, ms.release_time}

\* stream[index], for a stream with a batch axis and an index whose
\* integers are within every field
GetItem(index) ==
    /\ stream # NoStream
    /\ \A f \in StreamFields(stream) :
          /\ f.ndim = 1
          /\ \A i \in IndexInts(index) : i < Len(f.ids)
    /\ item' = [index |-> index, ms |-> getitem(stream, index)]
    /\ UNCHANGED <<stream, othersStream>>

\* the caller goes on with the stream the last index gave
Descend ==
    /\ item # NoItem
    /\ stream' = item.ms
    /\ item' = NoItem
    /\ UNCHANGED othersStream

StreamNext ==
    \/ \E n \in 1..MaxParticles, nt \in 1..MaxParticles, nr \in 1..MaxParticles :
           ConstructMockStream(n, nt, nr)
    \/ \E index \in Indexes : GetItem(index)
    \/ Descend

InitStream ==
    IntIdle /\ PotIdle /\ TidalIdle /\ BuiltinIdle /\ SpecialIdle /\ GalaIdle
        /\ PspIdle /\ StreamIdle

\* mock streams and their slicing
SpecStream ==
    InitStream /\ [][StreamNext]_vars

-----------------------------------------------------------------------------
(* Properties of the integrator                                            *)

\* batch shape of the initial conditions of the last call
CallBatch == SubSeq(call.w0, 1, Len(call.w0) - 1)

IsPrefix(a, b) == Len(a) <= Len(b) /\ SubSeq(b, 1, Len(a)) = a

\* C1: with one shared save-time grid of length T, the trajectory returned
\* for initial conditions of shape batch+(6,) has shape batch+(T,7), for
\* every batch: (), (N,), (1,), and 2-D batches with length-1 axes.
C1_TrajectoryKeepsBatch ==
    (outcome = "trajectory" /\ Len(call.ts) = 1)
        => w = CallBatch \o <<call.ts[1], 7>>

\* C2: an interpolant built from initial conditions of batch shape B,
\* B = (), (1,) or (N,), evaluated at a scalar time or a 1-D array of
\* times, returns positions whose leading batch shape is B.
C2_InterpolantKeepsBatch ==
    (evaluated # NoEval /\ Len(CallBatch) <= 1)
        => IsPrefix(CallBatch, SubSeq(evaluated.q, 1, Len(evaluated.q) - 1))

\* the case of C3: a batch of N >= 2 initial conditions, interpolated, and
\* the interpolant evaluated at a 1-D array of times
C3_Case ==
    /\ evaluated # NoEval
    /\ Len(CallBatch) = 1
    /\ CallBatch[1] >= 2
    /\ Len(evaluated.t) = 1

\* C3: for a batch of N >= 2 initial conditions, the interpolant evaluated
\* at a 1-D array of T times gives position and momentum arrays of leading
\* shape (N, T); added_ndim is 0 and extra_dims is 0.
C3_BatchTimesShape ==
    C3_Case =>
        /\ evaluated.q = <<CallBatch[1], evaluated.t[1], 3>>
        /\ evaluated.p = <<CallBatch[1], evaluated.t[1], 3>>
        /\ interpolant.added_ndim = 0
        /\ evaluated.extra_dims = 0

C3_Witness ==
    /\ C3_Case
    /\ CallBatch = <<MaxBatch>>
    /\ evaluated.t = <<MaxT>>
    /\ evaluated.q = <<MaxBatch, MaxT, 3>>

\* C4: with interpolated=True the options handed to diffeqsolve hold no
\* "max_steps" key, whatever the configured value (None or a number); with
\* interpolated=False they are the configured options.
C4_MaxStepsRemoved ==
    attempts = 1 =>
        IF call.interpolated THEN "max_steps" \notin DOMAIN kw
        ELSE kw = diffeq_kw

\* C5: every call makes exactly one solve attempt and ends either with the
\* complete trajectory (a row for every save time) or with the solver's
\* failure under a step cap; nothing else.
C5_OneAttemptTwoOutcomes ==
    call # NoCall =>
        /\ attempts = 1
        /\ \/ /\ outcome = "trajectory"
              /\ Len(w) >= 2
              /\ w[Len(w) - 1] = call.ts[Len(call.ts)]
           \/ /\ outcome = "solver_error"
              /\ step_cap(kw) # None

\* C27: a call never changes the configuration of the integrator; a call
\* with interpolated=False, whatever calls came before it (a call with
\* interpolated=True among them), passes the configured options, max_steps
\* included, to the solver.
C27_ConfigurationKept ==
    [][/\ diffeq_kw' = diffeq_kw
       /\ (attempts' = 1 /\ ~call'.interpolated) => kw' = diffeq_kw]_vars

\* a call with interpolated=True has taken max_steps out of the options it
\* hands to the solver, and the configuration still holds the key
C27_Witness ==
    /\ attempts = 1
    /\ call.interpolated
    /\ "max_steps" \notin DOMAIN kw
    /\ "max_steps" \in DOMAIN diffeq_kw

\* C28: for every diffeq_kw, those with no "max_steps" key included, a
\* call with interpolated=True reaches the solver: the option munging never
\* raises.
C28_MungingNeverRaises ==
    (call # NoCall /\ call.interpolated)
        => (attempts = 1 /\ outcome # "KeyError")

\* C28 for the mappings that hold a "max_steps" key: it holds.
C28_MungingWithKey ==
    (call # NoCall /\ call.interpolated /\ "max_steps" \in DOMAIN diffeq_kw)
        => (attempts = 1 /\ outcome # "KeyError")

\* the batch shape of the save times of the call: ts has shape Bt + (T,)
TsBatch == SubSeq(call.ts, 1, Len(call.ts) - 1)

\* a call with one save-time grid per element has returned a trajectory
PerElementGrids == outcome = "trajectory" /\ Len(call.ts) = 2

\* C29: with per-element save-time grids, initial conditions of batch shape
\* Bw and save times of shape Bt + (T,), the trajectory has shape
\* broadcast(Bw, Bt) + (T, 7); for Bw = (1,) and Bt = (M,), M >= 2, that is
\* (M, T, 7), with no extra leading axis.
C29_PerElementGridsBroadcast ==
    PerElementGrids
        => w = broadcast_shape(<<CallBatch, TsBatch>>)
                 \o <<call.ts[Len(call.ts)], 7>>

\* C29 for batch shapes without an axis of length 1: it holds.
C29_NoUnitAxes ==
    (/\ PerElementGrids
     /\ \A i \in DOMAIN CallBatch : CallBatch[i] # 1
     /\ \A i \in DOMAIN TsBatch : TsBatch[i] # 1)
        => w = broadcast_shape(<<CallBatch, TsBatch>>)
                 \o <<call.ts[Len(call.ts)], 7>>

-----------------------------------------------------------------------------
(* Properties of the dispatched operations                                 *)

\* the position and the time of the call, as the normalization of the
\* (q, t) forms is to hand them on: in the potential's length and time unit
NativePosition ==
    [value |-> IF args.q.unit = "none" THEN args.q.value
               ELSE [i \in 1..3 |-> (args.q.value[i] * LengthScale[args.q.unit])
                                      \div LengthScale[UnitSystems[pot.units].length]],
     unit |-> UnitSystems[pot.units].length]
NativeTime(t) ==
    [value |-> IF t.unit = "none" THEN t.value
               ELSE (t.value * TimeScale[t.unit])
                        \div TimeScale[UnitSystems[pot.units].time],
     unit |-> UnitSystems[pot.units].time]

\* C6: for each of the six operations and every position kind that has a
\* (q, t) form, op(q, t=t) gives what op(q, t) gives: the same private
\* routine on the same normalized arguments; where op(q, t) has no method,
\* op(q, t=t) fails in the same way.
C6_KeywordSameAsPositional ==
    (last # NoLast /\ last.op \in Ops /\ last.form = "keyword"
        /\ args.q.kind \notin PsptLike)
        => last.result = dispatch(pot, last.op, "positional", args.q, args.t)

C6_Witness ==
    /\ last # NoLast
    /\ last.form = "keyword"
    /\ last.op = "acceleration"
    /\ args.q.kind = "quantity"
    /\ args.t.kind = "quantity"
    /\ last.result.status = "ok"
    /\ last.result.routine = "_gradient"
    /\ last.result.neg

\* C7: in the (q, t) forms the private routine gets the position in the
\* potential's length unit (converted if it carries a unit, taken as it is
\* if unitless) and the time in the potential's time unit (likewise), and
\* the result is expressed in the potential's own unit system.
C7_PositionalNormalized ==
    (last # NoLast /\ last.form = "positional" /\ last.result.status = "ok")
        => /\ last.result.q = NativePosition
           /\ last.result.t = NativeTime(args.t)
           /\ last.result.units = pot.units

\* C7, the part about the arguments: it holds of every (q, t) call.
C7_ArgumentsNormalized ==
    (last # NoLast /\ last.form = "positional" /\ last.result.status = "ok")
        => /\ last.result.q = NativePosition
           /\ last.result.t = NativeTime(args.t)

\* C8: given a phase-space position or a four-vector, the private routine
\* gets the position in the potential's length unit and the embedded time
\* converted to the potential's time unit.
C8_EmbeddedTimeConverted ==
    (last # NoLast /\ last.form = "single" /\ last.result.status = "ok")
        => /\ last.result.q = NativePosition
           /\ last.result.t = NativeTime(args.q.t)

\* C8, the part about the position: it holds of every such call.
C8_PositionConverted ==
    (last # NoLast /\ last.form = "single" /\ last.result.status = "ok")
        => last.result.q = NativePosition

\* C9: for every input form, acceleration returns the negation of what
\* gradient returns for the same input.
C9_AccelerationIsMinusGradient ==
    (last # NoLast /\ last.op = "acceleration")
        => last.result =
             Neg(dispatch(pot, "gradient", last.form, args.q,
                          IF last.form = "single" THEN NoTime ELSE args.t))

C9_Witness ==
    /\ last # NoLast
    /\ last.op = "acceleration"
    /\ last.form = "positional"
    /\ args.q.kind = "apyq"
    /\ last.result.status = "ok"
    /\ last.result.neg
    /\ last.result.routine = "_gradient"

-----------------------------------------------------------------------------
(* Properties of tidal_tensor                                              *)

\* the trace of the matrix of batch element b of an array of matrices
TraceAt(A, b) ==
    FAdd(FAdd(A.at[b \o <<1, 1>>], A.at[b \o <<2, 2>>]), A.at[b \o <<3, 3>>])

\* C10: the tidal tensor is the hessian minus trace(hessian)/3 times the
\* identity, element by element in every batch element: the off-diagonal
\* entries are those of the hessian and the trace of the result is zero.
C10_TidalTensorTraceless ==
    tt.out # NoArray =>
        /\ tt.out.shape = tt.J.shape
        /\ \A b \in IndexSet(SubSeq(tt.J.shape, 1, Len(tt.J.shape) - 2)) :
            /\ \A i \in 1..3, j \in 1..3 :
                 tt.out.at[b \o <<i, j>>] =
                    IF i = j
                    THEN FSub(tt.J.at[b \o <<i, j>>], FDiv(TraceAt(tt.J, b), Num(3)))
                    ELSE tt.J.at[b \o <<i, j>>]
            /\ TraceAt(tt.out, b) = Num(0)

\* a batch of two hessians with different traces, neither a multiple of 3
C10_Witness ==
    /\ tt.out # NoArray
    /\ tt.J.shape = <<2, 3, 3>>
    /\ TraceAt(tt.J, <<1>>) = Num(1)
    /\ TraceAt(tt.J, <<2>>) = Num(2)
    /\ tt.out.at[<<1, 1, 1>>] = <<-1, 3>>
    /\ tt.out.at[<<2, 1, 2>>] = tt.J.at[<<2, 1, 2>>]

-----------------------------------------------------------------------------
(* Properties of the position kinds                                        *)

\* C11: the six operations accept the same position kinds: if one of them
\* has a (q, t) method for the kind of the position, the operation called
\* with (q, t) finds a method too.
C11_SamePositionKinds ==
    (/\ last # NoLast /\ last.op \in Ops /\ last.form = "positional"
     /\ \E op \in Ops : resolve(op, args.q.kind, 2) # "NotFound")
        => last.result.status # "NotFoundLookupError"

\* C12: tidal_tensor given a phase-space position or a four-vector returns
\* a value: it fails neither on a missing time nor in the lookup of hessian.
C12_TidalTensorTakesPspt ==
    (last # NoLast /\ last.op = "tidal_tensor" /\ last.form = "single"
        /\ args.q.kind \in PsptLike)
        => last.result.status = "ok"

\* C13: the potential energy of a NullPotential is expressed in the
\* specific-energy unit of the unit system the instance was constructed
\* with, whatever the form of the call.
C13_NullEnergyInOwnUnits ==
    (/\ last # NoLast /\ pot.model = "Null" /\ last.op = "potential_energy"
     /\ last.result.status = "ok")
        => last.result.units = pot.units

-----------------------------------------------------------------------------
(* Properties of the builtin potentials                                    *)

\* the sign of the scale length at the time of the evaluation, in the unit
\* the caller gave it in
CGivenAt(t) == builtin.c.value[t]

\* C14: a TriaxialHernquistPotential is constructed whatever c is; each
\* evaluation of its energy at a time t raises when c(t) <= 0 and returns a
\* value when c(t) > 0, whatever the unit c was given in.
C14_TriaxialHernquistChecksC ==
    (/\ builtin # NoBuiltin /\ builtin.model = "TriaxialHernquist"
     /\ builtin.energy # NoEnergy)
        => /\ CGivenAt(builtin.at.t) <= 0
                => builtin.energy = Raised("c must be positive")
           /\ CGivenAt(builtin.at.t) > 0 => builtin.energy.status = "ok"

\* a potential constructed with c = 0 at one time and c > 0 at the other,
\* given in pc to a potential in kpc, and evaluated where c = 0
C14_Witness ==
    /\ builtin # NoBuiltin /\ builtin.model = "TriaxialHernquist"
    /\ builtin.units = "galactic" /\ builtin.c.unit = "pc"
    /\ builtin.energy # NoEnergy
    /\ CGivenAt(builtin.at.t) = 0
    /\ \E t \in BuiltinTimes : CGivenAt(t) > 0
    /\ builtin.energy.status = "c must be positive"

\* C15: evaluating the energy of a PowerLawCutoffPotential whose index
\* alpha is outside [0, 3) at the time of the evaluation raises.
C15_PowerLawCutoffChecksAlpha ==
    (/\ builtin # NoBuiltin /\ builtin.model = "PowerLawCutoff"
     /\ builtin.energy # NoEnergy
     /\ ~(0 <= builtin.alpha.value[builtin.at.t]
           /\ builtin.alpha.value[builtin.at.t] < 3))
        => builtin.energy.status # "ok"

-----------------------------------------------------------------------------
(* Properties of the Milky Way composites                                  *)

\* every component given as a mapping or None is constructed, with the
\* caller's value for each key supplied and the documented default for each
\* other key
ComponentsAsDocumented ==
    /\ special.status = "ok"
    /\ \A n \in DOMAIN special.data :
          ~isinstance(special.inputs[n], SpecialClasses[special.composite][n])
          => /\ special.data[n].status = "ok"
             /\ DOMAIN special.data[n].params
                   = DOMAIN SpecialDefaults[special.composite][n]
             /\ \A k \in DOMAIN special.data[n].params :
                   special.data[n].params[k] =
                       IF k \in DOMAIN special.inputs[n]
                       THEN special.inputs[n][k]
                       ELSE SpecialDefaults[special.composite][n][k]

\* C16: for each component of the two composites, a partial mapping from
\* the caller gives a component with the caller's value for every supplied
\* key and the documented default for every other key, and None gives all
\* the defaults.
C16_PartialOverride ==
    special # NoSpecial => ComponentsAsDocumented

\* C16 for the composites bound to a dimensional unit system: it holds.
C16_PartialOverrideDimensional ==
    (special # NoSpecial /\ special.units # "dimensionless")
        => ComponentsAsDocumented

\* C25: after a composite is constructed with unit system U, every component
\* is bound to U, whether the component was omitted, given as a partial
\* mapping or given as an instance constructed in another unit system.
C25_ComponentsBoundToUnits ==
    (special # NoSpecial /\ special.status = "ok")
        => \A n \in DOMAIN special.data :
              special.data[n].units = special.units

\* the numeric value of a documented default in galactic units (kpc, Myr,
\* Msun, radian): a length in pc is a thousandth of its value in kpc
to_galactic(q) ==
    IF q.unit = "pc" THEN [v \in {"280"} |-> "0.28"][q.value] ELSE q.value

\* constructed with dimensionless units and no overrides
DimensionlessDefaults ==
    /\ special # NoSpecial
    /\ special.units = "dimensionless"
    /\ \A n \in DOMAIN special.inputs : DOMAIN special.inputs[n] = {}

\* every component holds the galactic value of each documented default
DefaultsInGalactic ==
    /\ special.status = "ok"
    /\ \A n \in DOMAIN special.data :
          /\ special.data[n].status = "ok"
          /\ \A k \in DOMAIN SpecialDefaults[special.composite][n] :
                special.data[n].params[k].value
                    = to_galactic(SpecialDefaults[special.composite][n][k])

\* C30: constructing either composite with dimensionless units and no
\* overrides succeeds for every component, each parameter holding the
\* numeric value its documented default has in galactic units.
C30_DimensionlessDefaults ==
    DimensionlessDefaults => DefaultsInGalactic

\* C30 for MilkyWayPotential, whose defaults are all quantities in kpc and
\* Msun: it holds.
C30_MilkyWayDimensionlessDefaults ==
    (DimensionlessDefaults /\ special.composite = "MilkyWayPotential")
        => DefaultsInGalactic

\* C25 for the components omitted or given as mappings: it holds.
C25_MappingsBoundToUnits ==
    (special # NoSpecial /\ special.status = "ok")
        => \A n \in DOMAIN special.data :
              ~isinstance(special.inputs[n],
                          SpecialClasses[special.composite][n])
                  => special.data[n].units = special.units

-----------------------------------------------------------------------------
(* Properties of PhaseSpacePosition                                        *)

\* C20: after construction with a time, the stored time has as many batch
\* dimensions as the position.
C20_TimeHasPositionRank ==
    (psp # NoPsp /\ psp.t # NoT) => Len(psp.t.shape) = Len(psp.q)

\* C20 for a 0-D time, and for a 1-D time with a batched position: it holds.
C20_ScalarOrVectorTime ==
    (/\ psp # NoPsp /\ psp.given_t # NoT
     /\ \/ Len(psp.given_t.shape) = 0
        \/ Len(psp.given_t.shape) = 1 /\ Len(psp.q) >= 1)
        => Len(psp.t.shape) = Len(psp.q)

-----------------------------------------------------------------------------
(* Properties of gala_to_galax                                             *)

\* a foreign potential whose type has no registered converter
Unregistered(g) == singledispatch(g.mro) = "PotentialBase"

IsComposite(g) == "items" \in DOMAIN g

\* the positions of the components of a composite that fail to convert
FailingComponents(g) ==
    {i \in DOMAIN g.items : gala_to_galax(g.items[i].potential).status # "ok"}

\* C17 as stated: a source of a type without a registered converter gets
\* the no-converter error, and so does every composite with a component of
\* such a type.
C17_NoConverterError ==
    (gala # NoGala /\ gala.result # NoConversion)
        => /\ Unregistered(gala.source)
                => gala.result = Raised("NotImplementedError")
           /\ (/\ IsComposite(gala.source)
               /\ \E i \in DOMAIN gala.source.items :
                     Unregistered(gala.source.items[i].potential))
                => gala.result = Raised("NotImplementedError")

\* C17, amended: a source of a type without a registered converter gets the
\* no-converter error; a composite with a component of such a type is never
\* converted to a composite: the conversion raises the error of the first
\* component, in order, that fails to convert, which is the no-converter
\* error when no component before the unregistered one fails.
C17_NoConverterErrorOrEarlier ==
    (gala # NoGala /\ gala.result # NoConversion)
        => /\ Unregistered(gala.source)
                => gala.result = Raised("NotImplementedError")
           /\ (/\ IsComposite(gala.source)
               /\ \E i \in DOMAIN gala.source.items :
                     Unregistered(gala.source.items[i].potential))
                => LET first == CHOOSE i \in FailingComponents(gala.source) :
                                  \A j \in FailingComponents(gala.source) : i <= j
                   IN /\ gala.result.status # "ok"
                      /\ gala.result
                           = gala_to_galax(gala.source.items[first].potential)
                      /\ Unregistered(gala.source.items[first].potential)
                           => gala.result = Raised("NotImplementedError")

\* a composite whose second component has no converter and whose first one
\* converts
C17_Witness ==
    /\ gala # NoGala /\ gala.result # NoConversion
    /\ IsComposite(gala.source)
    /\ Len(gala.source.items) = 2
    /\ gala_to_galax(gala.source.items[1].potential).status = "ok"
    /\ Unregistered(gala.source.items[2].potential)
    /\ gala.result = Raised("NotImplementedError")

WithParametersAndConverter ==
    RegisteredGeneric \cup {"NFWPotential", "LeeSutoTriaxialNFWPotential"}

\* C19: a source with the dimensionless unit system, of a type that
\* carries parameters and has a converter, is rejected with an error.
C19_DimensionlessRejected ==
    (/\ gala # NoGala /\ gala.result # NoConversion
     /\ gala.source.type \in WithParametersAndConverter
     /\ gala.source.units = "dimensionless")
        => gala.result.status # "ok"

\* C19 for the types of _gala_to_galax_registered: it holds, with TypeError.
C19_RegisteredRejectDimensionless ==
    (/\ gala # NoGala /\ gala.result # NoConversion
     /\ gala.source.type \in RegisteredGeneric
     /\ gala.source.units = "dimensionless")
        => gala.result = Raised("TypeError")

\* the batch shapes of the position, the momentum and the stored time
PspBatchShapes ==
    <<psp.q, psp.p, IF psp.t = NoT THEN <<>> ELSE psp.t.shape>>

\* C21: every PhaseSpacePosition that exists after construction has
\* mutually broadcast-compatible batch shapes of position, momentum and
\* time, so that its batch shape can be computed.
C21_BatchShapesCompatible ==
    psp # NoPsp
        => /\ BroadcastCompatible(PspBatchShapes)
           /\ psp.shape # NoShape => psp.shape.status = "ok"

-----------------------------------------------------------------------------
(* Properties of MockStream                                                *)

\* every field holds the same particles
SameParticles(ms) ==
    /\ ms.p = ms.q
    /\ ms.t = ms.q
    /\ ms.release_time = ms.q

C23_SameBatchLength ==
    /\ stream # NoStream
         => Len(stream.t.ids) = Len(stream.release_time.ids)
    /\ item # NoItem
         => Len(item.ms.t.ids) = Len(item.ms.release_time.ids)

-----------------------------------------------------------------------------
(* Properties of the conversion of NFW potentials                          *)

\* galax_to_gala of an NFWPotential, in a frame or not: the foreign NFW
\* potential with the same parameters, units and frame
galax_to_gala_nfw(p) ==
    LET inner == IF p.cls = "PotentialFrame" THEN p.original_potential ELSE p
    IN [type |-> "NFWPotential", mro |-> <<"NFWPotential", "PotentialBase">>,
        units |-> inner.units,
        frame |-> IF p.cls = "PotentialFrame" THEN p.frame ELSE "identity",
        parameters |-> inner.params]

\* the local NFWPotential with the parameters and units of the source
LocalNFW(g) ==
    [status |-> "ok", cls |-> "NFWPotential",
     params |-> [m |-> g.parameters.m, r_s |-> g.parameters.r_s],
     units |-> g.units]

-----------------------------------------------------------------------------
(* Properties of the conversion of subclasses                              *)

\* a subclass, itself unregistered, of a type with a registered converter
SubclassOfRegistered(g) ==
    /\ g.type = "Subclass"
    /\ g.type \notin Registered
    /\ g.mro[2] \in Registered

\* C26: the converter is keyed by exact type: a subclass of a registered
\* foreign type, not itself registered, gets the "no converter registered"
\* error, not the parent's converter and not any other error.
C26_SubclassNotConverted ==
    (/\ gala # NoGala /\ gala.result # NoConversion
     /\ SubclassOfRegistered(gala.source))
        => gala.result.status = "NotImplementedError"

\* what the code gives instead: the converter of the parent runs; it
\* converts the subclass, or fails in its own way
C26_SubclassGetsParentConverter ==
    (/\ gala # NoGala /\ gala.result # NoConversion
     /\ SubclassOfRegistered(gala.source))
        => /\ gala.result.status \in {"ok", "TypeError", "KeyError"}
           /\ gala.source.mro[2] \in RegisteredGeneric
                => gala.result.status \in {"TypeError", "KeyError"}
           /\ gala.source.mro[2] \notin RegisteredGeneric
                => gala.result.status = "ok"

====
